---- MODULE Spec2Model ----
(***************************************************************************)
(* Aurora entity/component core: src/core/Entity.js with its helper        *)
(* src/utils/hasItem.js.  Objects live on heaps so that aliasing is        *)
(* visible: `comps` holds the Component instances, `arrs` the task arrays, *)
(* and an Entity refers to both by address (index).  A heap holds the      *)
(* objects that are still referenced, in a canonical order (an object no   *)
(* reference leads to cannot be observed).  The Component class and        *)
(* utils/getItem are not part of the reviewed sources; they are modelled   *)
(* from their documented contract.  src/loaders/JSONLoader.js is modelled  *)
(* as the call of load() followed by the callbacks of its read stream;     *)
(* math/Percentage is not part of the reviewed sources either.             *)
(***************************************************************************)
EXTENDS Integers, Sequences, FiniteSets, TLC

\* ---------------------------------------------------------------- bounds
MaxEntities == 2      \* Entity instances ever constructed
MaxComps == 4         \* Component instances alive at a time
MaxTaskLen == 3       \* longest task array

\* ---------------------------------------------------------------- values
Types == {"X", "Y"}                      \* component types
Fields == {"hp"}                         \* payload field names
Vals == {1}                              \* payload field values
Data == UNION {[S -> Vals] : S \in SUBSET Fields}
Tasks == {"t1", "t2"}                    \* opaque task records
Undefined == "undefined"                 \* the JS undefined, for string fields
Null == 0                                \* null / undefined reference

SeqsUpTo(S, n) == UNION {[1..k -> S] : k \in 0..n}

VARIABLES ents, comps, arrs, held, last, loader
vars == <<ents, comps, arrs, held, last, loader>>

\* ents  : sequence of Entity objects, in order of construction
\* comps : heap of Component instances [type, data]; address = index
\* arrs  : heap of task arrays; address = index
\* held  : the task array the caller holds (a config.tasks or an argument
\*         it built), Null when it holds none
\* last  : the last call made: the method, the Entity it was made on, its
\*         component-type argument ("" when it has none), its Entity, array
\*         or config argument (0 when it has none), and what it returned
\* loader: the one asynchronous JSONLoader.load the caller makes: where it
\*         stands, and what it has called back so far

\* what a call returned: the kind of value is all the model keeps
RNull == "null"
RUndefined == "undefined"
RComponents == "components"          \* this._components
RComponent == "component"            \* a Component / its data
REntity == "entity"
RTrue == "true"
RFalse == "false"
RArray == "array"
RNone == "none"
RThrow == "throw"                    \* the call threw instead of returning
RTask == "task"                      \* a task record
RString == "string"                  \* this._uuid, this._type or this._name

Call(op, e, type, arg, ret) ==
    [op |-> op, e |-> e, type |-> type, arg |-> arg, ret |-> ret]

\* UUID(): a fresh identifier; the one drawn for the n-th Entity
UUID(n) == <<"gen", n>>
CfgUUID(u) == <<u, 0>>

\* ------------------------------------------------------------ heaps
\* s without the later occurrences of its elements
RECURSIVE Dedupe(_, _)
Dedupe(s, k) ==
    IF k = 0 THEN <<>>
    ELSE IF \E j \in 1..(k - 1) : s[j] = s[k]
         THEN Dedupe(s, k - 1)
         ELSE Append(Dedupe(s, k - 1), s[k])

Pos(s, x) == CHOOSE i \in 1..Len(s) : s[i] = x

RECURSIVE AllComponents(_, _)
AllComponents(es, i) ==
    IF i > Len(es) THEN <<>> ELSE es[i].components \o AllComponents(es, i + 1)

\* The state the program is in after a call: the objects some reference still
\* leads to, each heap in order of first reference (Entities in order of
\* construction, the caller's array first).
Live(es, cheap, aheap, hl) ==
    LET craw == AllComponents(es, 1)
        corder == Dedupe(craw, Len(craw))
        araw == (IF hl = Null THEN <<>> ELSE <<hl>>) \o [i \in 1..Len(es) |-> es[i].tasks]
        aorder == Dedupe(araw, Len(araw))
    IN [ents |-> [i \in 1..Len(es) |->
                    [es[i] EXCEPT
                       !.components = [j \in 1..Len(@) |-> Pos(corder, @[j])],
                       !.tasks = Pos(aorder, @)]],
        comps |-> [i \in 1..Len(corder) |-> cheap[corder[i]]],
        arrs |-> [i \in 1..Len(aorder) |-> aheap[aorder[i]]],
        held |-> IF hl = Null THEN Null ELSE Pos(aorder, hl)]

Commit(es, cheap, aheap, hl, call) ==
    LET n == Live(es, cheap, aheap, hl)
    IN /\ ents' = n.ents
       /\ comps' = n.comps
       /\ arrs' = n.arrs
       /\ held' = n.held
       /\ last' = call
       /\ UNCHANGED loader

\* ------------------------------------------------------------ Component
\* new Component( data ): a fresh instance holding its own payload
Component(type, data) == [type |-> type, data |-> data]

\* component.clone(): an independent instance, same type, deep copy of data
ComponentClone(c) == [type |-> c.type, data |-> c.data]

\* component.apply( data ): merge the partial record into the payload
ComponentApply(c, partial) ==
    [c EXCEPT !.data = [f \in (DOMAIN c.data) \cup (DOMAIN partial) |->
                          IF f \in DOMAIN partial THEN partial[f] ELSE c.data[f]]]

\* ------------------------------------------------------------ utils
\* hasItem( target, array, prop ): does array.find( item[prop] === target )
\* find an item.  The array holds addresses into heap; the field "type"
\* stands for the property "_type".
hasItem(target, array, prop, heap) ==
    LET match == {i \in 1..Len(array) : heap[array[i]][prop] = target}
    IN IF match = {} THEN FALSE ELSE TRUE

\* getItem( target, array, prop ): the first match, or null
getItem(target, array, prop, heap) ==
    IF \E i \in 1..Len(array) : heap[array[i]][prop] = target
    THEN array[CHOOSE i \in 1..Len(array) :
                   /\ heap[array[i]][prop] = target
                   /\ \A j \in 1..(i-1) : heap[array[j]][prop] # target]
    ELSE Null

\* array.indexOf( item ), 1-based; 0 when absent (JS -1)
indexOf(array, item) ==
    IF \E i \in 1..Len(array) : array[i] = item
    THEN CHOOSE i \in 1..Len(array) :
             /\ array[i] = item
             /\ \A j \in 1..(i-1) : array[j] # item
    ELSE 0

\* array.splice( index, 1 )
splice(array, index) ==
    [i \in 1..(Len(array) - 1) |-> IF i < index THEN array[i] ELSE array[i+1]]

\* ------------------------------------------------------------ Entity helpers
\* this.hasComponent( type )
hasComponent(ent, type, heap) == hasItem(type, ent.components, "type", heap)

\* this.getComponent( type )
getComponent(ent, type, heap) == getItem(type, ent.components, "type", heap)

\* _addComponent without the test for an existing Component of the type
addComponentNoCheck(ent, heap, component) ==
    [ent |-> [ent EXCEPT !.components = Append(@, Len(heap) + 1),
                         !.dirty = TRUE],
     heap |-> Append(heap, component),
     ok |-> TRUE]

\* _addComponent marking the Entity dirty before the test
addComponentDirtyFirst(ent, heap, component) ==
    IF hasComponent(ent, component.type, heap)
    THEN [ent |-> [ent EXCEPT !.dirty = TRUE], heap |-> heap, ok |-> FALSE]
    ELSE [ent |-> [ent EXCEPT !.components = Append(@, Len(heap) + 1),
                              !.dirty = TRUE],
          heap |-> Append(heap, component),
          ok |-> TRUE]

\* _addComponent putting the Component in front: unshift() instead of push()
addComponentFront(ent, heap, component) ==
    IF hasComponent(ent, component.type, heap)
    THEN [ent |-> ent, heap |-> heap, ok |-> FALSE]
    ELSE [ent |-> [ent EXCEPT !.components = <<Len(heap) + 1>> \o @,
                              !.dirty = TRUE],
          heap |-> Append(heap, component),
          ok |-> TRUE]

\* this._addComponent( component ) on entity value `ent` with heap `heap`:
\* the entity and heap afterwards, and whether the push happened
addComponent(ent, heap, component) ==
    IF hasComponent(ent, component.type, heap)
    THEN [ent |-> ent, heap |-> heap, ok |-> FALSE]
    ELSE [ent |-> [ent EXCEPT !.components = Append(@, Len(heap) + 1),
                              !.dirty = TRUE],
          heap |-> Append(heap, component),
          ok |-> TRUE]

\* config.components.forEach( data => this._addComponent( new Component( data ) ) )
RECURSIVE addAll(_, _, _)
addAll(ent, heap, list) ==
    IF list = <<>> THEN [ent |-> ent, heap |-> heap]
    ELSE LET r == addComponent(ent, heap, Component(Head(list).type, Head(list).data))
         IN addAll(r.ent, r.heap, Tail(list))

\* copy pushing the source's own Component instances instead of clones
RECURSIVE pushShared(_, _, _)
pushShared(ent, heap, srcComponents) ==
    IF srcComponents = <<>> THEN [ent |-> ent, heap |-> heap]
    ELSE pushShared([ent EXCEPT !.components = Append(@, Head(srcComponents))],
                    heap, Tail(srcComponents))

\* source.getComponents().forEach( c => this._components.push( c.clone() ) )
RECURSIVE pushClones(_, _, _)
pushClones(ent, heap, srcComponents) ==
    IF srcComponents = <<>> THEN [ent |-> ent, heap |-> heap]
    ELSE pushClones([ent EXCEPT !.components = Append(@, Len(heap) + 1)],
                    Append(heap, ComponentClone(heap[Head(srcComponents)])),
                    Tail(srcComponents))

\* ent.getComponentList()
getComponentList(ent, heap) ==
    [i \in 1..Len(ent.components) |-> heap[ent.components[i]].type]

\* the payload of each Component of ent, in order: getData( type ) of each
getDataList(ent, heap) ==
    [i \in 1..Len(ent.components) |-> heap[ent.components[i]].data]

\* ent.getTasks()
getTasks(ent, aheap) == aheap[ent.tasks]

\* ent.getCurrentTask(): this._tasks[ 0 ]
getCurrentTask(ent, aheap) ==
    IF aheap[ent.tasks] = <<>> THEN Undefined ELSE aheap[ent.tasks][1]

\* ent.isDirty()
isDirty(ent) == ent.dirty

\* the number of distinct types in a config.components list
CfgTypeCount(list) == Cardinality({list[i].type : i \in 1..Len(list)})

\* this.copy( source ), on the sequence of entities: e is this, s is source
copy(es, heap, e, s) ==
    LET es1 == [es EXCEPT ![e].type = es[s].type,
                          ![e].name = es[s].name,
                          ![e].components = <<>>]
        r == pushClones(es1[e], heap, es1[s].components)
    IN [ents |-> [es1 EXCEPT ![e] = [r.ent EXCEPT !.dirty = TRUE]],
        heap |-> r.heap]

\* the constructor clearing _dirty before the components are added
hydratedEntityDirty(n, u, t, nm, clist, heap, tk, newArr) ==
    LET e0 == [uuid |-> IF u = Undefined THEN UUID(n) ELSE CfgUUID(u),
               type |-> IF t = Undefined THEN "no-type" ELSE t,
               name |-> IF nm = Undefined THEN "No Name" ELSE nm,
               components |-> <<>>, tasks |-> Null,
               dirty |-> FALSE, tasksDirty |-> "undefined"]
        r == addAll(e0, heap, clist)
    IN [ent |-> [r.ent EXCEPT !.tasks = IF tk = Null THEN newArr ELSE tk,
                              !.tasksDirty = "false"],
        heap |-> r.heap]

\* the if branch of the constructor, then this._dirty = false: the n-th
\* Entity built from a config; tk is config.tasks, newArr the address a new
\* empty array gets
hydratedEntity(n, u, t, nm, clist, heap, tk, newArr) ==
    LET e0 == [uuid |-> IF u = Undefined THEN UUID(n) ELSE CfgUUID(u),
               type |-> IF t = Undefined THEN "no-type" ELSE t,
               name |-> IF nm = Undefined THEN "No Name" ELSE nm,
               components |-> <<>>, tasks |-> Null,
               dirty |-> FALSE, tasksDirty |-> "undefined"]
        r == addAll(e0, heap, clist)
    IN [ent |-> [r.ent EXCEPT !.tasks = IF tk = Null THEN newArr ELSE tk,
                              !.tasksDirty = "false",
                              !.dirty = FALSE],
        heap |-> r.heap]

\* the else branch of the constructor: a fresh instance, the n-th Entity
freshEntity(n, tasksAddr) ==
    [uuid |-> UUID(n), type |-> "untyped", name |-> "No Name",
     components |-> <<>>, tasks |-> tasksAddr,
     dirty |-> FALSE, tasksDirty |-> "undefined"]

\* ------------------------------------------------------------ JSONLoader
MaxSize == 33          \* largest file, in bytes
HighWaterMark == 16    \* the chunk size of the read stream

\* new Percentage( bytesRead / size ): the fraction, as numerator and
\* denominator
Percentage(bytesRead, size) == <<bytesRead, size>>

\* before load() is called
LoaderIdle ==
    [pc |-> "idle", size |-> 0, bytesRead |-> 0, fnProgress |-> FALSE,
     valid |-> FALSE, progress |-> <<>>, onLoad |-> 0, onError |-> 0,
     failed |-> FALSE, threw |-> "none"]

\* ------------------------------------------------------------ initial state
Init ==
    /\ ents = <<>>
    /\ comps = <<>>
    /\ arrs = <<>>
    /\ held = Null
    /\ last = Call("init", 0, "", 0, RNone)
    /\ loader = LoaderIdle

\* ------------------------------------------------------------ actions
\* the caller builds an array literal of tasks and keeps it
MakeList(s) ==
    /\ Len(s) <= MaxTaskLen
    /\ Commit(ents, comps, Append(arrs, s), Len(arrs) + 1, Call("makeList", 0, "", 0, RArray))

\* new Entity()
ConstructFresh ==
    /\ Len(ents) < MaxEntities
    /\ Commit(Append(ents, freshEntity(Len(ents) + 1, Len(arrs) + 1)),
              comps, Append(arrs, <<>>), held,
              Call("new", Len(ents) + 1, "", 0, REntity))

\* the config record of a call of new Entity( config ): hasC tells whether
\* config.components is there, hasT whether config.tasks is
Config(u, t, n, hasC, clist, tk) ==
    [uuid |-> u, type |-> t, name |-> n, hasC |-> hasC, components |-> clist,
     hasT |-> tk # Null]

\* new Entity( config ): config.uuid, config.type, config.name may be absent
\* (Undefined); config.components is absent when hasC is FALSE; config.tasks
\* is absent (Null) or an array the caller holds
ConstructHydrated(u, t, n, hasC, clist, tk) ==
    /\ Len(ents) < MaxEntities
    /\ IF ~hasC
       THEN \* config.components.forEach throws a TypeError: no Entity is returned
            /\ last' = Call("newFromConfig", 0, "", Config(u, t, n, hasC, clist, tk), RThrow)
            /\ UNCHANGED <<ents, comps, arrs, held, loader>>
       ELSE /\ Len(comps) + CfgTypeCount(clist) <= MaxComps
            /\ LET r == hydratedEntity(Len(ents) + 1, u, t, n, clist, comps,
                                       tk, Len(arrs) + 1)
               IN Commit(Append(ents, r.ent), r.heap,
                         IF tk = Null THEN Append(arrs, <<>>) ELSE arrs, held,
                         Call("newFromConfig", Len(ents) + 1, "",
                              Config(u, t, n, hasC, clist, tk), REntity))

\* e._addComponent( new Component( [type, data] ) )
AddComponent(e, type, data) ==
    /\ Len(comps) < MaxComps
    /\ LET r == addComponent(ents[e], comps, Component(type, data))
       IN Commit([ents EXCEPT ![e] = r.ent], r.heap, arrs, held,
                 Call("_addComponent", e, type, 0,
                      IF r.ok THEN RComponents ELSE RNull))

\* e._removeComponent( type )
RemoveComponent(e, type) ==
    LET index == indexOf(ents[e].components, getComponent(ents[e], type, comps))
    IN IF index = 0
       THEN /\ last' = Call("_removeComponent", e, type, 0, RNull)
            /\ UNCHANGED <<ents, comps, arrs, held, loader>>
       ELSE Commit([ents EXCEPT ![e].components = splice(@, index),
                                ![e].dirty = TRUE],
                   comps, arrs, held, Call("_removeComponent", e, type, 0, RComponents))

\* e.copy( source )
Copy(e, s) ==
    /\ Len(comps) - Len(ents[e].components) + Len(ents[s].components) <= MaxComps
    /\ LET r == copy(ents, comps, e, s)
       IN Commit(r.ents, r.heap, arrs, held, Call("copy", e, "", s, RComponents))

\* e.clone(): new this.constructor().copy( this ); returns what copy returns
Clone(e) ==
    /\ Len(ents) < MaxEntities
    /\ Len(comps) + Len(ents[e].components) <= MaxComps
    /\ LET n == Len(ents) + 1
           r == copy(Append(ents, freshEntity(n, Len(arrs) + 1)), comps, n, e)
       IN Commit(r.ents, r.heap, Append(arrs, <<>>), held,
                 Call("clone", e, "", 0, RComponents))

\* e.getData( type )
GetData(e, type) ==
    /\ LET component == getComponent(ents[e], type, comps)
       IN last' = Call("getData", e, type, 0,
                       IF component = Null THEN RNull ELSE RComponent)
    /\ UNCHANGED <<ents, comps, arrs, held, loader>>

\* setComponentData without the call of setDirty
SetComponentDataClean(e, type, data) ==
    LET hits == {i \in 1..Len(ents[e].components) :
                    comps[ents[e].components[i]].type = type}
    IN IF hits = {}
       THEN /\ last' = Call("setComponentData", e, type, 0, RNull)
            /\ UNCHANGED <<ents, comps, arrs, held, loader>>
       ELSE LET i == CHOOSE k \in hits : \A j \in hits : k <= j
                a == ents[e].components[i]
            IN /\ comps' = [comps EXCEPT ![a] = ComponentApply(@, data)]
               /\ last' = Call("setComponentData", e, type, 0, RComponent)
               /\ UNCHANGED <<ents, arrs, held, loader>>

\* e.setComponentData( type, data )
SetComponentData(e, type, data) ==
    LET hits == {i \in 1..Len(ents[e].components) :
                    comps[ents[e].components[i]].type = type}
    IN IF hits = {}
       THEN /\ last' = Call("setComponentData", e, type, 0, RNull)
            /\ UNCHANGED <<ents, comps, arrs, held, loader>>
       ELSE LET i == CHOOSE k \in hits : \A j \in hits : k <= j
                a == ents[e].components[i]
            IN /\ comps' = [comps EXCEPT ![a] = ComponentApply(@, data)]
               /\ ents' = [ents EXCEPT ![e].dirty = TRUE]
               /\ last' = Call("setComponentData", e, type, 0, RComponent)
               /\ UNCHANGED <<arrs, held, loader>>

\* e.setDirty( dirty = true ): hasArg is FALSE when the argument is omitted
SetDirty(e, hasArg, d) ==
    LET dirty == IF hasArg THEN d ELSE TRUE
    IN /\ ents' = [ents EXCEPT ![e].dirty = dirty]
       /\ last' = Call("setDirty", e, "", 0, IF dirty THEN RTrue ELSE RFalse)
       /\ UNCHANGED <<comps, arrs, held, loader>>

\* e.setTasks( tasks ): tasks is the array at address a
SetTasks(e, a) ==
    Commit([ents EXCEPT ![e].tasks = a,
                        ![e].tasksDirty = "true",
                        ![e].dirty = TRUE],
           comps, arrs, held, Call("setTasks", e, "", a, RUndefined))

\* appendTasks storing the concatenation: this._tasks = this._tasks.concat( tasks )
AppendTasksStore(e, a) ==
    /\ Len(arrs[a]) + Len(arrs[ents[e].tasks]) <= MaxTaskLen
    /\ Commit([ents EXCEPT ![e].tasks = Len(arrs) + 1,
                           ![e].dirty = TRUE],
              comps, Append(arrs, arrs[ents[e].tasks] \o arrs[a]), held,
              Call("appendTasks", e, "", a, RUndefined))

\* e.appendTasks( tasks ): the concatenation is computed and dropped
AppendTasks(e, a) ==
    /\ ents' = [ents EXCEPT ![e].dirty = TRUE]
    /\ last' = Call("appendTasks", e, "", a, RUndefined)
    /\ UNCHANGED <<comps, arrs, held, loader>>

\* insertTasks concatenating the other way round: this._tasks.concat( tasks )
InsertTasksBehind(e, a) ==
    /\ Len(arrs[a]) + Len(arrs[ents[e].tasks]) <= MaxTaskLen
    /\ Commit([ents EXCEPT ![e].tasks = Len(arrs) + 1,
                           ![e].tasksDirty = "true",
                           ![e].dirty = TRUE],
              comps, Append(arrs, arrs[ents[e].tasks] \o arrs[a]), held,
              Call("insertTasks", e, "", a, RUndefined))

\* e.insertTasks( tasks ): tasks.concat( this._tasks ) is a new array
InsertTasks(e, a) ==
    /\ Len(arrs[a]) + Len(arrs[ents[e].tasks]) <= MaxTaskLen
    /\ Commit([ents EXCEPT ![e].tasks = Len(arrs) + 1,
                           ![e].tasksDirty = "true",
                           ![e].dirty = TRUE],
              comps, Append(arrs, arrs[a] \o arrs[ents[e].tasks]), held,
              Call("insertTasks", e, "", a, RUndefined))

\* advanceTasks removing the last task: pop() instead of shift()
AdvanceTasksPop(e) ==
    /\ arrs' = [arrs EXCEPT ![ents[e].tasks] =
                   IF @ = <<>> THEN <<>> ELSE SubSeq(@, 1, Len(@) - 1)]
    /\ ents' = [ents EXCEPT ![e].tasksDirty = "true",
                            ![e].dirty = TRUE]
    /\ last' = Call("advanceTasks", e, "", 0, RUndefined)
    /\ UNCHANGED <<comps, held, loader>>

\* advanceTasks without this.tasksDirty = true
AdvanceTasksNoFlag(e) ==
    /\ arrs' = [arrs EXCEPT ![ents[e].tasks] = IF @ = <<>> THEN <<>> ELSE Tail(@)]
    /\ ents' = [ents EXCEPT ![e].dirty = TRUE]
    /\ last' = Call("advanceTasks", e, "", 0, RUndefined)
    /\ UNCHANGED <<comps, held, loader>>

\* e.advanceTasks(): this._tasks.shift() works on the array in place
AdvanceTasks(e) ==
    /\ arrs' = [arrs EXCEPT ![ents[e].tasks] = IF @ = <<>> THEN <<>> ELSE Tail(@)]
    /\ ents' = [ents EXCEPT ![e].tasksDirty = "true",
                            ![e].dirty = TRUE]
    /\ last' = Call("advanceTasks", e, "", 0, RUndefined)
    /\ UNCHANGED <<comps, held, loader>>

\* ------------------------------------------------------------ queries
Unchanged == UNCHANGED <<ents, comps, arrs, held, loader>>

\* e.getComponent( type )
GetComponent(e, type) ==
    /\ last' = Call("getComponent", e, type, 0,
                    IF getComponent(ents[e], type, comps) = Null
                    THEN RNull ELSE RComponent)
    /\ Unchanged

\* e.getComponentList(): a new array of the types
GetComponentList(e) ==
    /\ last' = Call("getComponentList", e, "", 0, RArray)
    /\ Unchanged

\* e.getComponents(): this._components itself
GetComponents(e) ==
    /\ last' = Call("getComponents", e, "", 0, RComponents)
    /\ Unchanged

\* getCurrentTask taking the front task off the queue: this._tasks.shift()
GetCurrentTaskShift(e) ==
    /\ last' = Call("getCurrentTask", e, "", 0,
                    IF getCurrentTask(ents[e], arrs) = Undefined
                    THEN RUndefined ELSE RTask)
    /\ arrs' = [arrs EXCEPT ![ents[e].tasks] = IF @ = <<>> THEN <<>> ELSE Tail(@)]
    /\ UNCHANGED <<ents, comps, held, loader>>

\* e.getCurrentTask(): this._tasks[ 0 ]
GetCurrentTask(e) ==
    /\ last' = Call("getCurrentTask", e, "", 0,
                    IF getCurrentTask(ents[e], arrs) = Undefined
                    THEN RUndefined ELSE RTask)
    /\ Unchanged

\* e.getName()
GetName(e) ==
    /\ last' = Call("getName", e, "", 0, RString)
    /\ Unchanged

\* e.getTasks(): this._tasks itself
GetTasks(e) ==
    /\ last' = Call("getTasks", e, "", 0, RArray)
    /\ Unchanged

\* e.getType()
GetType(e) ==
    /\ last' = Call("getType", e, "", 0, RString)
    /\ Unchanged

\* e.getUUID()
GetUUID(e) ==
    /\ last' = Call("getUUID", e, "", 0, RString)
    /\ Unchanged

\* e.hasComponent( type )
HasComponent(e, type) ==
    /\ last' = Call("hasComponent", e, type, 0,
                    IF hasComponent(ents[e], type, comps) THEN RTrue ELSE RFalse)
    /\ Unchanged

\* e.isDirty()
IsDirty(e) ==
    /\ last' = Call("isDirty", e, "", 0, IF isDirty(ents[e]) THEN RTrue ELSE RFalse)
    /\ Unchanged

\* ------------------------------------------------------------ loader steps
EntityUnchanged == UNCHANGED <<ents, comps, arrs, held, last>>

\* loader.load( src, onLoad, onProgress, onError ), up to its return.  The
\* file at src exists or not and has `size` bytes; `valid` tells whether its
\* whole content is JSON text; fnLoad, fnProgress, fnError tell whether the
\* callback passed is a function.
Load(exists, size, valid, fnLoad, fnProgress, fnError) ==
    /\ loader.pc = "idle"
    /\ size <= MaxSize
    /\ valid => size > 0
    /\ IF ~fnLoad \/ ~fnError
       THEN \* the two early returns
            loader' = [loader EXCEPT !.pc = "returned"]
       ELSE IF ~exists
       THEN \* FS.statSync( src ) throws: the exception leaves load()
            loader' = [loader EXCEPT !.pc = "done", !.failed = TRUE, !.threw = "stat"]
       ELSE loader' = [loader EXCEPT !.pc = "reading", !.size = size,
                                     !.valid = valid, !.fnProgress = fnProgress]
    /\ EntityUnchanged

\* stream.on( "data" ): the next chunk, of at most highWaterMark bytes
OnData ==
    /\ loader.pc = "reading"
    /\ loader.bytesRead < loader.size
    /\ LET rest == loader.size - loader.bytesRead
           n == IF rest < HighWaterMark THEN rest ELSE HighWaterMark
           bytesRead == loader.bytesRead + n
       IN loader' = [loader EXCEPT
                        !.bytesRead = bytesRead,
                        !.progress = IF loader.fnProgress
                                     THEN Append(@, Percentage(bytesRead, loader.size))
                                     ELSE @]
    /\ EntityUnchanged

\* stream.on( "error" ): opening or reading the file has failed
OnError ==
    /\ loader.pc = "reading"
    /\ loader' = [loader EXCEPT !.pc = "errored", !.failed = TRUE, !.onError = @ + 1]
    /\ EntityUnchanged

\* stream.on( "close" ), after the end of the file or after a read error:
\* JSON.parse of what was read throws, or onLoad gets the result.  What was
\* read before an error may or may not be JSON text; nothing is not.
OnClose(partialValid) ==
    /\ \/ loader.pc = "reading" /\ loader.bytesRead = loader.size
       \/ loader.pc = "errored"
    /\ partialValid => loader.bytesRead > 0
    /\ LET parses == IF loader.pc = "errored" THEN partialValid ELSE loader.valid
       IN loader' = [loader EXCEPT
                        !.pc = "done",
                        !.onLoad = IF parses THEN @ + 1 ELSE @,
                        !.threw = IF parses THEN @ ELSE "parse"]
    /\ EntityUnchanged

Entities == 1..Len(ents)
Arrays == 1..Len(arrs)

\* ------------------------------------------------------------ inputs
\* config.uuid, config.type, config.name: all absent, or all given
HeadAbsent == <<Undefined, Undefined, Undefined>>
HeadGiven == <<"cfg-uuid", "unit", "Tank">>
\* config.components lists: any payloads, and empty payloads only
AnyComponents == SeqsUpTo([type : Types, data : Data], 2)
BareComponents == SeqsUpTo([type : Types, data : {<<>>}], 2)
\* config.uuid, config.type, config.name: each absent or given
AllHeads == {Undefined, "cfg-uuid"} \X {Undefined, "unit"} \X {Undefined, "Tank"}
\* config.components lists long enough to repeat a type behind another one
HydrationComponents == SeqsUpTo([type : Types, data : Data], 3)
\* the array literals the caller builds
TaskLists == {<<>>, <<"t1">>, <<"t2">>, <<"t1", "t2">>}

Construction(heads, clists, tks) ==
    \/ ConstructFresh
    \/ \E h \in heads, clist \in clists, tk \in tks :
            ConstructHydrated(h[1], h[2], h[3], TRUE, clist, tk)
    \/ \E h \in heads, tk \in tks :
            ConstructHydrated(h[1], h[2], h[3], FALSE, <<>>, tk)

FlagCalls ==
    \/ \E e \in Entities, d \in BOOLEAN : SetDirty(e, TRUE, d)
    \/ \E e \in Entities : SetDirty(e, FALSE, TRUE)

ComponentCalls(types, datas) ==
    \/ \E e \in Entities, type \in types, data \in datas : AddComponent(e, type, data)
    \/ \E e \in Entities, type \in types : RemoveComponent(e, type)
    \/ \E e \in Entities, s \in Entities : Copy(e, s)
    \/ \E e \in Entities, type \in types : GetData(e, type)
    \/ \E e \in Entities, type \in types, data \in datas : SetComponentData(e, type, data)

TaskCalls(lists) ==
    \/ \E s \in lists : MakeList(s)
    \/ \E e \in Entities, a \in Arrays : SetTasks(e, a)
    \/ \E e \in Entities, a \in Arrays : AppendTasks(e, a)
    \/ \E e \in Entities, a \in Arrays : InsertTasks(e, a)
    \/ \E e \in Entities : AdvanceTasks(e)

QueryCalls ==
    \/ \E e \in Entities, type \in Types : GetComponent(e, type)
    \/ \E e \in Entities : GetComponentList(e)
    \/ \E e \in Entities : GetComponents(e)
    \/ \E e \in Entities : GetCurrentTask(e)
    \/ \E e \in Entities : GetName(e)
    \/ \E e \in Entities : GetTasks(e)
    \/ \E e \in Entities : GetType(e)
    \/ \E e \in Entities : GetUUID(e)
    \/ \E e \in Entities, type \in Types : HasComponent(e, type)
    \/ \E e \in Entities : IsDirty(e)

\* ------------------------------------------------------------ specifications
\* every call on one Entity, whichever way it was constructed
Next ==
    \/ ents = <<>> /\ Construction({HeadAbsent, HeadGiven},
                                   BareComponents, {held})
    \/ FlagCalls
    \/ ComponentCalls(Types, Data)
    \/ TaskCalls(TaskLists)
Spec == Init /\ [][Next]_vars

\* several Entities: component management, cloning and copying
NextComponents ==
    \/ Construction({HeadGiven}, AnyComponents, {Null})
    \/ ComponentCalls(Types, Data)
    \/ \E e \in Entities : Clone(e)
SpecComponents == Init /\ [][NextComponents]_vars

\* several Entities: the task queues
NextTasks ==
    \/ Construction({HeadAbsent}, {<<>>}, {held})
    \/ FlagCalls
    \/ TaskCalls(TaskLists)
SpecTasks == Init /\ [][NextTasks]_vars

\* one Entity: the queries, between calls that change its components, its
\* tasks and its flags
NextQueries ==
    \/ ents = <<>> /\ Construction({HeadAbsent, HeadGiven},
                                   BareComponents, {held})
    \/ \E e \in Entities : SetDirty(e, TRUE, FALSE)
    \/ \E e \in Entities, type \in Types, data \in Data : AddComponent(e, type, data)
    \/ \E e \in Entities, type \in Types : RemoveComponent(e, type)
    \/ \E s \in TaskLists : MakeList(s)
    \/ \E e \in Entities, a \in Arrays : SetTasks(e, a)
    \/ \E e \in Entities : AdvanceTasks(e)
    \/ \E e \in Entities, type \in Types : GetData(e, type)
    \/ QueryCalls
SpecQueries == Init /\ [][NextQueries]_vars

\* one asynchronous load
NextLoader ==
    \/ \E exists \in BOOLEAN, size \in 0..MaxSize, valid \in BOOLEAN,
          fnLoad \in BOOLEAN, fnProgress \in BOOLEAN, fnError \in BOOLEAN :
            Load(exists, size, valid, fnLoad, fnProgress, fnError)
    \/ OnData
    \/ OnError
    \/ \E partialValid \in BOOLEAN : OnClose(partialValid)
SpecLoader == Init /\ [][NextLoader]_vars

\* one Entity built from any config record, or fresh
NextHydration ==
    \/ \E s \in TaskLists : MakeList(s)
    \/ ents = <<>> /\ Construction(AllHeads, HydrationComponents, {Null, held})
SpecHydration == Init /\ [][NextHydration]_vars

\* ------------------------------------------------------------ properties
\* the Entity the last call was made on
This == ents[last.e]
OnEntity == last.e \in Entities

\* C1. Uniqueness: in every reachable state, whatever sequence of
\* construction (fresh or from a config that may repeat a type),
\* _addComponent, _removeComponent, copy and clone led to it, no Entity holds
\* two Components of the same type.
C1_Uniqueness ==
    \A e \in Entities :
        \A i, j \in 1..Len(ents[e].components) :
            i # j => comps[ents[e].components[i]].type # comps[ents[e].components[j]].type

\* an _addComponent of a type already present was refused on an Entity that
\* holds a Component of every type
C1_Witness ==
    /\ OnEntity
    /\ last.op = "_addComponent"
    /\ last.ret = RNull
    /\ Len(This.components) = Cardinality(Types)

\* C2. Clone independence: no Component instance belongs to two Entities, and
\* a setComponentData on one Entity leaves the payload of every Component of
\* every other Entity as it was.
C2_NoSharedComponent ==
    \A e1, e2 \in Entities :
        e1 # e2 =>
            \A i \in 1..Len(ents[e1].components), j \in 1..Len(ents[e2].components) :
                ents[e1].components[i] # ents[e2].components[j]

C3_CopyReplaces ==
    [][last'.op = "copy" =>
          /\ getComponentList(ents'[last'.e], comps')
               = getComponentList(ents[last'.arg], comps)
          /\ ents'[last'.e].type = ents[last'.arg].type
          /\ ents'[last'.e].name = ents[last'.arg].name]_vars

\* C4. Every structural or data mutation sets dirty: right after a successful
\* _addComponent, a successful _removeComponent, copy, a successful
\* setComponentData, setTasks, insertTasks or advanceTasks, isDirty() is true.
C4_Mutators == {"copy", "setTasks", "insertTasks", "advanceTasks"}
C4_MayFail == {"_addComponent", "_removeComponent", "setComponentData"}

C4_MutationSetsDirty ==
    (/\ OnEntity
     /\ \/ last.op \in C4_Mutators
        \/ last.op \in C4_MayFail /\ last.ret # RNull)
    => isDirty(This)

\* a payload was changed by setComponentData: the Entity is dirty
C4_Witness ==
    /\ OnEntity
    /\ last.op = "setComponentData"
    /\ last.ret = RComponent
    /\ isDirty(This)
    /\ \E i \in 1..Len(This.components) : comps[This.components[i]].data # <<>>

\* C5. Dirty is monotonic until cleared: the constructor returns an Entity
\* with dirty = false on both paths, and on an existing Entity only
\* setDirty( false ) takes dirty from true to false.
C5_DirtyMonotonic ==
    /\ [](OnEntity /\ last.op \in {"new", "newFromConfig"} => ~isDirty(This))
    /\ [][\A e \in Entities :
            isDirty(ents[e]) /\ ~isDirty(ents'[e]) =>
                /\ last'.op = "setDirty"
                /\ last'.e = e
                /\ last'.ret = RFalse]_vars

\* an Entity was built from a config with a Component of every type, and is
\* clean
C5_Witness ==
    /\ OnEntity
    /\ last.op = "newFromConfig"
    /\ Len(This.components) = Cardinality(Types)
    /\ ~isDirty(This)

\* C6. Task FIFO: advanceTasks() on [t1, t2, ..., tn] leaves [t2, ..., tn],
\* and getCurrentTask() then returns t2 (undefined when n = 1); on an empty
\* sequence it does not throw and leaves the sequence empty.
C6_TaskFIFO ==
    [][last'.op = "advanceTasks" =>
          LET S == getTasks(ents[last'.e], arrs)
          IN /\ last'.ret # RThrow
             /\ getTasks(ents'[last'.e], arrs') = IF S = <<>> THEN <<>> ELSE Tail(S)
             /\ getCurrentTask(ents'[last'.e], arrs')
                  = IF Len(S) >= 2 THEN S[2] ELSE Undefined]_vars

\* advanceTasks() has left two different tasks of a longer sequence
C6_Witness ==
    /\ OnEntity
    /\ last.op = "advanceTasks"
    /\ Len(getTasks(This, arrs)) = 2
    /\ getTasks(This, arrs)[1] # getTasks(This, arrs)[2]

\* C7. insertTasks prepends: after insertTasks( T ) on a stored sequence S the
\* stored sequence is T followed by S, and getCurrentTask() returns the first
\* element of T when T is not empty.
C7_InsertPrepends ==
    [][last'.op = "insertTasks" =>
          LET S == getTasks(ents[last'.e], arrs)
              T == arrs[last'.arg]
          IN /\ getTasks(ents'[last'.e], arrs') = T \o S
             /\ T # <<>> => getCurrentTask(ents'[last'.e], arrs') = T[1]]_vars

\* insertTasks() has built a sequence of three tasks, not all the same
C7_Witness ==
    /\ OnEntity
    /\ last.op = "insertTasks"
    /\ Len(getTasks(This, arrs)) = 3
    /\ getTasks(This, arrs)[1] # getTasks(This, arrs)[3]

\* C8. Failed calls are safe no-ops: _addComponent of a type already present,
\* and _removeComponent, setComponentData and getData of an absent type,
\* return null without throwing and leave the components, their payloads,
\* the tasks, dirty and tasksDirty as they were.
C8_Fails ==
    /\ last'.e \in Entities
    /\ \/ /\ last'.op = "_addComponent"
          /\ hasComponent(ents[last'.e], last'.type, comps)
       \/ /\ last'.op \in {"_removeComponent", "setComponentData", "getData"}
          /\ ~hasComponent(ents[last'.e], last'.type, comps)

C8_FailedCallsAreNoOps ==
    [][C8_Fails => /\ last'.ret = RNull
                   /\ UNCHANGED <<ents, comps, arrs, held>>]_vars

\* a call has failed on a clean Entity that holds a Component with a payload
\* and a task
C8_Witness ==
    /\ OnEntity
    /\ last.op \in {"_addComponent", "_removeComponent", "setComponentData", "getData"}
    /\ last.ret = RNull
    /\ ~isDirty(This)
    /\ getTasks(This, arrs) # <<>>
    /\ \E i \in 1..Len(This.components) : comps[This.components[i]].data # <<>>

\* C9. tasksDirty tracks task changes: right after setTasks, insertTasks and
\* advanceTasks both tasksDirty and dirty are true.
C9_TaskCallsSetFlags ==
    (OnEntity /\ last.op \in {"setTasks", "insertTasks", "advanceTasks"})
    => (This.tasksDirty = "true" /\ isDirty(This))

\* advanceTasks() was called on an empty queue: the flags are set all the same
C9_Witness ==
    /\ OnEntity
    /\ last.op = "advanceTasks"
    /\ getTasks(This, arrs) = <<>>
    /\ This.tasksDirty = "true"

\* C10. appendTasks marks both flags: right after appendTasks both dirty and
\* tasksDirty are true.
C10_AppendSetsBothFlags ==
    (OnEntity /\ last.op = "appendTasks")
    => (This.tasksDirty = "true" /\ isDirty(This))

\* C11. Queries are read-only: getComponent, getComponentList, getComponents,
\* getCurrentTask, getData, getName, getTasks, getType, getUUID, hasComponent
\* and isDirty leave the uuid, type, name, components and their payloads,
\* tasks, dirty and tasksDirty of the Entity (and every other object) as they
\* were, for a type that is present and for one that is absent.
C11_Queries ==
    {"getComponent", "getComponentList", "getComponents", "getCurrentTask",
     "getData", "getName", "getTasks", "getType", "getUUID", "hasComponent",
     "isDirty"}

C11_QueriesReadOnly ==
    [][last'.op \in C11_Queries => UNCHANGED <<ents, comps, arrs, held>>]_vars

\* getCurrentTask() has returned a task of a dirty Entity that holds a
\* Component with a payload and lacks one of the other type
C11_Witness ==
    /\ OnEntity
    /\ last.op = "getCurrentTask"
    /\ last.ret = RTask
    /\ isDirty(This)
    /\ This.tasksDirty = "true"
    /\ \E i \in 1..Len(This.components) : comps[This.components[i]].data # <<>>
    /\ \E type \in Types : ~hasComponent(This, type, comps)

\* C12. Hydration defaults: new Entity( config ) completes for a config that
\* lacks any of uuid, type, name, components and tasks, and yields an Entity
\* where each absent field has its default (generated uuid, "no-type",
\* "No Name", no components, no tasks), with dirty = false and
\* tasksDirty = false.
C12_HydrationDefaults ==
    last.op = "newFromConfig" =>
        /\ last.ret = REntity
        /\ OnEntity
        /\ last.arg.uuid = Undefined => This.uuid = UUID(last.e)
        /\ last.arg.type = Undefined => This.type = "no-type"
        /\ last.arg.name = Undefined => This.name = "No Name"
        /\ ~last.arg.hasC => This.components = <<>>
        /\ ~last.arg.hasT => getTasks(This, arrs) = <<>>
        /\ ~isDirty(This)
        /\ This.tasksDirty = "false"

\* C18. Hydration preserves the order of the components: after
\* new Entity( config ) getComponentList() is the sequence of the types of
\* config.components, in that order, where of the entries of one type only
\* the first is kept (its payload too) and the later ones are dropped.
RECURSIVE FirstEntries(_, _)
FirstEntries(list, k) ==
    IF k = 0 THEN <<>>
    ELSE IF \E j \in 1..(k - 1) : list[j].type = list[k].type
         THEN FirstEntries(list, k - 1)
         ELSE Append(FirstEntries(list, k - 1), list[k])

C18_HydrationKeepsOrder ==
    (last.op = "newFromConfig" /\ last.ret = REntity) =>
        LET kept == FirstEntries(last.arg.components, Len(last.arg.components))
        IN /\ getComponentList(This, comps) = [i \in 1..Len(kept) |-> kept[i].type]
           /\ getDataList(This, comps) = [i \in 1..Len(kept) |-> kept[i].data]

\* a config listed Y, X, Y with two different payloads for Y: the Entity
\* holds Y then X, and Y has the first payload
C18_Witness ==
    /\ OnEntity
    /\ last.op = "newFromConfig"
    /\ Len(last.arg.components) = 3
    /\ last.arg.components[1].type = "Y"
    /\ last.arg.components[2].type = "X"
    /\ last.arg.components[3].type = "Y"
    /\ last.arg.components[3].data # last.arg.components[1].data
    /\ getComponentList(This, comps) = <<"Y", "X">>
    /\ getDataList(This, comps)[1] = last.arg.components[1].data

\* C13. The identifier is immutable: no call on an existing Entity (copy,
\* setComponentData and the task calls included) changes its uuid; an Entity
\* built from a config with a uuid has that uuid; and E.clone() is an Entity
\* whose uuid differs from E's.
C13_UuidKept == \A e \in Entities : ents'[e].uuid = ents[e].uuid

C13_ConfigUuid ==
    (last.op = "newFromConfig" /\ last.ret = REntity /\ last.arg.uuid # Undefined)
    => This.uuid = CfgUUID(last.arg.uuid)

\* the Entity clone() has built is the last one constructed
C13_CloneUuid ==
    last.op = "clone" =>
        /\ last.ret = REntity
        /\ ents[Len(ents)].uuid # This.uuid

C13_IdImmutable ==
    /\ [][C13_UuidKept]_vars
    /\ []C13_ConfigUuid
    /\ []C13_CloneUuid

C17_TaskCallsReturnTasks ==
    (OnEntity /\ last.op \in {"setTasks", "appendTasks", "insertTasks", "advanceTasks"})
    => last.ret = RArray

\* C19. Components and tasks are framed apart: _addComponent,
\* _removeComponent, setComponentData and copy leave the tasks and tasksDirty
\* as they were; setTasks, appendTasks, insertTasks and advanceTasks leave
\* the type, the name, the components and their payloads as they were; and
\* E.clone() is an Entity without tasks, whatever tasks E holds.
C19_ComponentCallsKeepTasks ==
    last'.op \in {"_addComponent", "_removeComponent", "setComponentData", "copy"} =>
        /\ getTasks(ents'[last'.e], arrs') = getTasks(ents[last'.e], arrs)
        /\ ents'[last'.e].tasksDirty = ents[last'.e].tasksDirty

C19_TaskCallsKeepComponents ==
    last'.op \in {"setTasks", "appendTasks", "insertTasks", "advanceTasks"} =>
        /\ ents'[last'.e].type = ents[last'.e].type
        /\ ents'[last'.e].name = ents[last'.e].name
        /\ getComponentList(ents'[last'.e], comps') = getComponentList(ents[last'.e], comps)
        /\ getDataList(ents'[last'.e], comps') = getDataList(ents[last'.e], comps)

C19_CloneWithoutTasks ==
    last.op = "clone" =>
        /\ last.ret = REntity
        /\ getTasks(ents[Len(ents)], arrs) = <<>>

C19_FramedApart ==
    /\ [][C19_ComponentCallsKeepTasks]_vars
    /\ [][C19_TaskCallsKeepComponents]_vars
    /\ []C19_CloneWithoutTasks

\* C20. The task queues are independent of the caller's state: an
\* advanceTasks() on one Entity changes neither the tasks of another Entity
\* (built from the same config.tasks, or given the same list by setTasks) nor
\* the list the caller holds.
C20_TaskQueuesIndependent ==
    [][last'.op = "advanceTasks" =>
          /\ \A e \in Entities :
                e # last'.e => getTasks(ents'[e], arrs') = getTasks(ents[e], arrs)
          /\ held # Null => arrs'[held'] = arrs[held]]_vars

\* C14. Progress is monotonic: in a load with an onProgress callback, of a
\* file of any size (an empty one and one of at most one chunk included), the
\* values passed to onProgress never decrease, the last one is 1.0, and it
\* has been passed before onLoad is called.
IsOne(fraction) == fraction[1] = fraction[2]
AtMost(f, g) == f[1] * g[2] <= g[1] * f[2]

C14_NonDecreasing ==
    \A i \in 1..(Len(loader.progress) - 1) :
        AtMost(loader.progress[i], loader.progress[i + 1])

C14_EndsWithOne ==
    /\ loader.progress # <<>>
    /\ IsOne(loader.progress[Len(loader.progress)])

C14_ProgressMonotonic ==
    /\ C14_NonDecreasing
    /\ (loader.fnProgress /\ loader.onLoad > 0) => C14_EndsWithOne
    /\ (loader.fnProgress /\ loader.pc = "done" /\ ~loader.failed) => C14_EndsWithOne

\* C15. The asynchronous load reports every read failure through onError: when
\* the read fails (the file is missing when load() looks at it, or the stream
\* fails part-way) onError is called, onLoad is not, and no exception leaves
\* load(); when the read succeeds onLoad is called exactly once and onError
\* never.
C15_ErrorsReported ==
    /\ loader.threw # "stat"
    /\ loader.failed => loader.onError >= 1 /\ loader.onLoad = 0
    /\ ~loader.failed => loader.onError = 0 /\ loader.onLoad <= 1
    /\ (loader.pc = "done" /\ ~loader.failed) => loader.onLoad = 1
====
